---- MODULE Spec2Model ----
(***************************************************************************)
(* Model of run_part2_etl (src/Izzah's version/etl.py): the data-quality   *)
(* rules for Department, Employee, Counseling and Performance, the         *)
(* exception ledgers, the Performance discard set, the cleaner, the        *)
(* exception reports and the summary.                                      *)
(*                                                                         *)
(* Cell values.  A cell is a record [t, n, s]:                             *)
(*   t = "none"   Python None (null in an object column)                   *)
(*   t = "nan"    float NaN   (null in a float64 column)                   *)
(*   t = "int"    integer n                                                *)
(*   t = "float"  the float n/10 (n counts tenths)                         *)
(*   t = "str"    text s, a sequence of one-character strings              *)
(* Text is a sequence of characters so that str(), strip(), int() and      *)
(* float() are computed, not assumed.  Numeric text in the model carries   *)
(* at most one fractional digit.                                           *)
(***************************************************************************)
EXTENDS Integers, Sequences, FiniteSets, TLC

\* ------------------------------------------------------------------------
\* Bounds of the model (numbers of rows of the tables read from the store)
\* ------------------------------------------------------------------------
MaxDeptRows == 2
MaxStudRows == 2
MaxPerfRows == 2
\* number of calls of run_part2_etl on the same tables
MaxRuns == 2

\* ------------------------------------------------------------------------
\* Cells
\* ------------------------------------------------------------------------
None     == [t |-> "none",  n |-> 0, s |-> <<>>]
NaN      == [t |-> "nan",   n |-> 0, s |-> <<>>]
IntC(i)  == [t |-> "int",   n |-> i, s |-> <<>>]
FloatC(x) == [t |-> "float", n |-> x, s |-> <<>>]
StrC(q)  == [t |-> "str",   n |-> 0, s |-> q]

Digits == <<"0", "1", "2", "3", "4", "5", "6", "7", "8", "9">>

IsDigit(c) == \E d \in 1..10 : Digits[d] = c

DigitVal(c) == (CHOOSE d \in 1..10 : Digits[d] = c) - 1

IsSpace(c) == c = " "

\* pd.isna(v): None and NaN are the nulls of a column
isna(v) == v.t \in {"none", "nan"}

\* isinstance(v, float)
IsFloatInstance(v) == v.t \in {"float", "nan"}

\* str.strip(): drop leading and trailing whitespace
RECURSIVE LStrip(_)
LStrip(q) == IF q # <<>> /\ IsSpace(Head(q)) THEN LStrip(Tail(q)) ELSE q

RECURSIVE RStrip(_)
RStrip(q) ==
    IF q # <<>> /\ IsSpace(q[Len(q)]) THEN RStrip(SubSeq(q, 1, Len(q) - 1)) ELSE q

strip(q) == RStrip(LStrip(q))

\* decimal digits of a natural number
RECURSIVE NatToChars(_)
NatToChars(k) ==
    IF k < 10 THEN <<Digits[k + 1]>>
    ELSE NatToChars(k \div 10) \o <<Digits[(k % 10) + 1]>>

Abs(i) == IF i < 0 THEN 0 - i ELSE i

\* str(v) of a cell
str(v) ==
    CASE v.t = "none"  -> <<"N", "o", "n", "e">>
      [] v.t = "nan"   -> <<"n", "a", "n">>
      [] v.t = "int"   -> (IF v.n < 0 THEN <<"-">> ELSE <<>>) \o NatToChars(Abs(v.n))
      [] v.t = "float" -> (IF v.n < 0 THEN <<"-">> ELSE <<>>)
                            \o NatToChars(Abs(v.n) \div 10)
                            \o <<".">> \o NatToChars(Abs(v.n) % 10)
      [] OTHER         -> v.s

\* value of a non-empty run of digits
RECURSIVE DigitsVal(_)
DigitsVal(q) ==
    IF q = <<>> THEN 0
    ELSE 10 * DigitsVal(SubSeq(q, 1, Len(q) - 1)) + DigitVal(q[Len(q)])

AllDigits(q) == \A k \in 1..Len(q) : IsDigit(q[k])

HasSign(q) == q # <<>> /\ Head(q) \in {"-", "+"}

Unsigned(q) == IF HasSign(q) THEN Tail(q) ELSE q

SignOf(q) == IF q # <<>> /\ Head(q) = "-" THEN 0 - 1 ELSE 1

\* position of the first "." of q, 0 when there is none
DotPos(q) ==
    IF \E k \in 1..Len(q) : q[k] = "."
    THEN CHOOSE k \in 1..Len(q) : q[k] = "." /\ \A j \in 1..(k - 1) : q[j] # "."
    ELSE 0

\* Results of a conversion: ok = FALSE is a raised exception.
\* kind "num" carries n in tenths; "nan" and "inf" carry no number.
Raised == [ok |-> FALSE, kind |-> "err", n |-> 0]
Num(x) == [ok |-> TRUE, kind |-> "num", n |-> x]
NanR   == [ok |-> TRUE, kind |-> "nan", n |-> 0]
InfR(sg) == [ok |-> TRUE, kind |-> "inf", n |-> sg]

\* float(text): [sign] digits [. [digits]] | [sign] . digits | nan | inf
FloatOfText(q0) ==
    LET q == strip(q0)
        u == Unsigned(q)
        d == DotPos(u)
        ip == IF d = 0 THEN u ELSE SubSeq(u, 1, d - 1)
        fp == IF d = 0 THEN <<>> ELSE SubSeq(u, d + 1, Len(u))
    IN  IF u = <<"n", "a", "n">> THEN NanR
        ELSE IF u = <<"i", "n", "f">> THEN InfR(SignOf(q))
        ELSE IF AllDigits(ip) /\ AllDigits(fp) /\ Len(ip) + Len(fp) > 0
        THEN Num(SignOf(q) * (10 * DigitsVal(ip)
                              + (IF fp = <<>> THEN 0 ELSE DigitVal(fp[1]))))
        ELSE Raised

\* float(v)
float(v) ==
    CASE v.t = "none"  -> Raised
      [] v.t = "nan"   -> NanR
      [] v.t = "int"   -> Num(10 * v.n)
      [] v.t = "float" -> Num(v.n)
      [] OTHER         -> FloatOfText(v.s)

\* int(text): [sign] digits, nothing else
IntOfText(q0) ==
    LET q == strip(q0)
        u == Unsigned(q)
    IN  IF u # <<>> /\ AllDigits(u) THEN Num(SignOf(q) * DigitsVal(u)) ELSE Raised

\* truncation toward zero of x tenths
Trunc(x) == IF x < 0 THEN 0 - ((0 - x) \div 10) ELSE x \div 10

\* int(v); here n of the result is the integer itself
int(v) ==
    CASE v.t = "none"  -> Raised
      [] v.t = "nan"   -> Raised
      [] v.t = "int"   -> Num(v.n)
      [] v.t = "float" -> Num(Trunc(v.n))
      [] OTHER         -> IntOfText(v.s)

\* float(v).is_integer() for a float cell
is_integer(v) == v.t = "float" /\ v.n % 10 = 0

\* ------------------------------------------------------------------------
\* Row Sets (DataFrames): cols is the ordered column list, rows the rows in
\* index order; row k of rows carries the index label k - 1 (RangeIndex).
\* ------------------------------------------------------------------------
Table(cs, rs) == [cols |-> cs, rows |-> rs]

HasCol(t, c) == \E k \in 1..Len(t.cols) : t.cols[k] = c

\* DataFrame.empty: no rows or no columns
empty(t) == Len(t.rows) = 0 \/ Len(t.cols) = 0

\* concatenation of F(1), ..., F(n)
FlatMap(n, F(_)) ==
    LET f[k \in 0..n] == IF k = 0 THEN <<>> ELSE f[k - 1] \o F(k)
    IN  f[n]

Ex(r, c, it, d) == [row_index |-> r, column |-> c, issue_type |-> it, details |-> d]

ReportHeader == <<"row_index", "column", "issue_type", "details">>

\* mutant: duplicated() with its default keep="first", which spares the first
\* row of every repeated value
duplicated_keepFirst(t, c, r) ==
    \E r2 \in 1..(r - 1) : t.rows[r2][c] = t.rows[r][c]

\* Series.duplicated(keep=False): every row whose value occurs in another row
duplicated(t, c, r) ==
    \E r2 \in 1..Len(t.rows) : r2 # r /\ t.rows[r2][c] = t.rows[r][c]

\* DataFrame.duplicated(subset=[c1, c2], keep=False)
duplicated_pair(t, c1, c2, r) ==
    \E r2 \in 1..Len(t.rows) :
        r2 # r /\ t.rows[r2][c1] = t.rows[r][c1] /\ t.rows[r2][c2] = t.rows[r][c2]

\* ------------------------------------------------------------------------
\* Department_Information rules
\* ------------------------------------------------------------------------
DeptMissingRule(t) ==
    IF empty(t) THEN <<>>
    ELSE FlatMap(Len(t.rows), LAMBDA r :
            FlatMap(Len(t.cols), LAMBDA c :
                IF isna(t.rows[r][t.cols[c]])
                THEN <<Ex(r - 1, t.cols[c], "Missing", <<"null value">>)>>
                ELSE <<>>))

DeptDupKeyRule(t) ==
    IF empty(t) \/ ~HasCol(t, "Department_ID") THEN <<>>
    ELSE FlatMap(Len(t.rows), LAMBDA r :
            IF duplicated(t, "Department_ID", r)
            THEN <<Ex(r - 1, "Department_ID", "Duplicate Key",
                      <<"Department_ID=">> \o str(t.rows[r]["Department_ID"]))>>
            ELSE <<>>)

DeptDupNameRule(t) ==
    IF empty(t) \/ ~HasCol(t, "Department_Name") THEN <<>>
    ELSE FlatMap(Len(t.rows), LAMBDA r :
            IF duplicated(t, "Department_Name", r)
            THEN <<Ex(r - 1, "Department_Name", "Duplicate Value",
                      <<"Department_Name=">> \o str(t.rows[r]["Department_Name"]))>>
            ELSE <<>>)

\* mutant: the year is compared with <= 1900
DOECheck_offByOne(r, v) ==
    IF isna(v)
    THEN <<Ex(r - 1, "DOE", "Out-of-Range",
              <<"DOE=">> \o str(v) \o <<" (must be >=1900)">>)>>
    ELSE IF ~int(v).ok
    THEN <<Ex(r - 1, "DOE", "Invalid Type",
              <<"DOE=">> \o str(v) \o <<" (not integer)">>)>>
    ELSE IF int(v).n <= 1900
    THEN <<Ex(r - 1, "DOE", "Out-of-Range",
              <<"DOE=">> \o str(v) \o <<" (must be >=1900)">>)>>
    ELSE <<>>

\* one row of the DOE rule: pd.isna(v) or int(v) < 1900, inside try/except
DOECheck(r, v) ==
    IF isna(v)
    THEN <<Ex(r - 1, "DOE", "Out-of-Range",
              <<"DOE=">> \o str(v) \o <<" (must be >=1900)">>)>>
    ELSE IF ~int(v).ok
    THEN <<Ex(r - 1, "DOE", "Invalid Type",
              <<"DOE=">> \o str(v) \o <<" (not integer)">>)>>
    ELSE IF int(v).n < 1900
    THEN <<Ex(r - 1, "DOE", "Out-of-Range",
              <<"DOE=">> \o str(v) \o <<" (must be >=1900)">>)>>
    ELSE <<>>

DeptDOERule(t) ==
    IF empty(t) \/ ~HasCol(t, "DOE") THEN <<>>
    ELSE FlatMap(Len(t.rows), LAMBDA r : DOECheck(r, t.rows[r]["DOE"]))

\* ------------------------------------------------------------------------
\* Student_Counceling_Information rules
\* ------------------------------------------------------------------------
StudApplies(t) == ~empty(t) /\ HasCol(t, "Department_Admission")

StudMissingRule(t) ==
    IF ~StudApplies(t) THEN <<>>
    ELSE FlatMap(Len(t.rows), LAMBDA r :
            LET v == t.rows[r]["Department_Admission"]
            IN  IF isna(v) \/ strip(str(v)) = <<>>
                THEN <<Ex(r - 1, "Department_Admission", "Missing",
                          <<"Department_Admission is required">>)>>
                ELSE <<>>)

\* set(dept["Department_ID"].dropna().astype(str)), or set() without the column
DeptIds(d) ==
    IF HasCol(d, "Department_ID")
    THEN {str(d.rows[r]["Department_ID"]) :
            r \in {k \in 1..Len(d.rows) : ~isna(d.rows[k]["Department_ID"])}}
    ELSE {}

StudFKRule(t, d) ==
    IF ~StudApplies(t) THEN <<>>
    ELSE FlatMap(Len(t.rows), LAMBDA r :
            LET s == strip(str(t.rows[r]["Department_Admission"]))
            IN  IF s # <<>> /\ DeptIds(d) # {} /\ s \notin DeptIds(d)
                THEN <<Ex(r - 1, "Department_Admission", "FK Violation",
                          <<"Department_Admission=">> \o s
                            \o <<" not in Department_Information.Department_ID">>)>>
                ELSE <<>>)

\* ------------------------------------------------------------------------
\* Student_Performance_Data rules; each returns the exceptions it appends
\* and the row labels it adds to discard_idx
\* ------------------------------------------------------------------------
Found(e, d) == [ex |-> e, discard |-> d]

\* perf.index[perf.isna().any(axis=1)]
MissRows(t) ==
    {r \in 1..Len(t.rows) : \E c \in 1..Len(t.cols) : isna(t.rows[r][t.cols[c]])}

\* mutant: rows are numbered from 1
PerfMissingRule_oneBased(t) ==
    IF empty(t) THEN Found(<<>>, {})
    ELSE Found(FlatMap(Len(t.rows), LAMBDA r :
                  IF r \in MissRows(t)
                  THEN <<Ex(r, "(row)", "Missing", <<"Missing values in row">>)>>
                  ELSE <<>>),
               MissRows(t))

PerfMissingRule(t) ==
    IF empty(t) THEN Found(<<>>, {})
    ELSE Found(FlatMap(Len(t.rows), LAMBDA r :
                  IF r \in MissRows(t)
                  THEN <<Ex(r - 1, "(row)", "Missing", <<"Missing values in row">>)>>
                  ELSE <<>>),
               {r - 1 : r \in MissRows(t)})

\* mutant: the upper bound of the range is not tested
MarksInRange_noUpperBound(f) == f.kind = "num" /\ 0 <= f.n

\* 0 <= f <= 100 for the result f of float(v); false for NaN and infinities
\* mutant: the bounds 0 and 100 are excluded
MarksInRange_exclusive(f) == f.kind = "num" /\ 0 < f.n /\ f.n < 10 * 100

MarksInRange(f) == f.kind = "num" /\ 0 <= f.n /\ f.n <= 10 * 100

\* mutant: a failed conversion is filed as Out-of-Range
MarksCheck_misfiled(r, v) ==
    IF ~float(v).ok \/ ~MarksInRange(float(v))
    THEN <<Ex(r - 1, "Marks", "Out-of-Range",
              <<"Marks=">> \o str(v) \o <<" not in [0,100]">>)>>
    ELSE <<>>

MarksCheck(r, v) ==
    IF ~float(v).ok
    THEN <<Ex(r - 1, "Marks", "Invalid Type",
              <<"Marks=">> \o str(v) \o <<" not numeric">>)>>
    ELSE IF ~MarksInRange(float(v))
    THEN <<Ex(r - 1, "Marks", "Out-of-Range",
              <<"Marks=">> \o str(v) \o <<" not in [0,100]">>)>>
    ELSE <<>>

\* mutant: the except branch does not add the row to discard_idx
PerfMarksRule_invalidKept(t) ==
    IF empty(t) \/ ~HasCol(t, "Marks") THEN Found(<<>>, {})
    ELSE Found(FlatMap(Len(t.rows), LAMBDA r : MarksCheck(r, t.rows[r]["Marks"])),
               {r - 1 : r \in {k \in 1..Len(t.rows) :
                                 /\ float(t.rows[k]["Marks"]).ok
                                 /\ MarksCheck(k, t.rows[k]["Marks"]) # <<>>}})

PerfMarksRule(t) ==
    IF empty(t) \/ ~HasCol(t, "Marks") THEN Found(<<>>, {})
    ELSE Found(FlatMap(Len(t.rows), LAMBDA r : MarksCheck(r, t.rows[r]["Marks"])),
               {r - 1 : r \in {k \in 1..Len(t.rows) :
                                 MarksCheck(k, t.rows[k]["Marks"]) # <<>>}})

\* mutant: the fractional part is not looked at
EffortCheck_truncates(r, v) ==
    IF ~int(v).ok
    THEN <<Ex(r - 1, "Effort_Hours", "Invalid Type",
              <<"Effort_Hours=">> \o str(v) \o <<" not integer">>)>>
    ELSE IF int(v).n < 0
    THEN <<Ex(r - 1, "Effort_Hours", "Out-of-Range",
              <<"Effort_Hours=">> \o str(v) \o <<" must be integer >= 0">>)>>
    ELSE <<>>

EffortCheck(r, v) ==
    IF ~int(v).ok
    THEN <<Ex(r - 1, "Effort_Hours", "Invalid Type",
              <<"Effort_Hours=">> \o str(v) \o <<" not integer">>)>>
    ELSE IF int(v).n < 0 \/ (IsFloatInstance(v) /\ ~is_integer(v))
    THEN <<Ex(r - 1, "Effort_Hours", "Out-of-Range",
              <<"Effort_Hours=">> \o str(v) \o <<" must be integer >= 0">>)>>
    ELSE <<>>

\* mutant: the Effort_Hours rule is guarded by the Marks column as well
PerfEffortRule_needsMarks(t) ==
    IF empty(t) \/ ~HasCol(t, "Effort_Hours") \/ ~HasCol(t, "Marks") THEN Found(<<>>, {})
    ELSE Found(FlatMap(Len(t.rows), LAMBDA r :
                  EffortCheck(r, t.rows[r]["Effort_Hours"])),
               {r - 1 : r \in {k \in 1..Len(t.rows) :
                                 EffortCheck(k, t.rows[k]["Effort_Hours"]) # <<>>}})

PerfEffortRule(t) ==
    IF empty(t) \/ ~HasCol(t, "Effort_Hours") THEN Found(<<>>, {})
    ELSE Found(FlatMap(Len(t.rows), LAMBDA r :
                  EffortCheck(r, t.rows[r]["Effort_Hours"])),
               {r - 1 : r \in {k \in 1..Len(t.rows) :
                                 EffortCheck(k, t.rows[k]["Effort_Hours"]) # <<>>}})

\* repr() of a cell inside the tuple of the Duplicate Pair details
repr(v) == IF v.t = "str" THEN <<"'">> \o v.s \o <<"'">> ELSE str(v)

\* mutant: the rows of a repeated pair are added to discard_idx
PerfDupPairRule_discards(t) ==
    IF empty(t) \/ ~(HasCol(t, "Student_ID") /\ HasCol(t, "Paper_ID")) THEN Found(<<>>, {})
    ELSE Found(FlatMap(Len(t.rows), LAMBDA r :
                  IF duplicated_pair(t, "Student_ID", "Paper_ID", r)
                  THEN <<Ex(r - 1, "Student_ID,Paper_ID", "Duplicate Pair",
                            <<"(">> \o repr(t.rows[r]["Student_ID"]) \o <<", ">>
                              \o repr(t.rows[r]["Paper_ID"]) \o <<")">>
                              \o <<" appears more than once">>)>>
                  ELSE <<>>),
               {r - 1 : r \in {k \in 1..Len(t.rows) :
                                 duplicated_pair(t, "Student_ID", "Paper_ID", k)}})

PerfDupPairRule(t) ==
    IF empty(t) \/ ~(HasCol(t, "Student_ID") /\ HasCol(t, "Paper_ID")) THEN Found(<<>>, {})
    ELSE Found(FlatMap(Len(t.rows), LAMBDA r :
                  IF duplicated_pair(t, "Student_ID", "Paper_ID", r)
                  THEN <<Ex(r - 1, "Student_ID,Paper_ID", "Duplicate Pair",
                            <<"(">> \o repr(t.rows[r]["Student_ID"]) \o <<", ">>
                              \o repr(t.rows[r]["Paper_ID"]) \o <<")">>
                              \o <<" appears more than once">>)>>
                  ELSE <<>>),
               {})

\* ------------------------------------------------------------------------
\* Cleaner: perf.drop(index=sorted(discard_idx)).reset_index(drop=True)
\* ------------------------------------------------------------------------
\* mutant: the labels are taken as positions counted from 1
drop_byPosition(t, labels) ==
    Table(t.cols,
          FlatMap(Len(t.rows), LAMBDA r :
              IF r \in labels THEN <<>> ELSE <<t.rows[r]>>))

\* mutant: reset_index() without drop=True keeps the old index as a column
drop_keepIndex(t, labels) ==
    Table(<<"index">> \o t.cols,
          FlatMap(Len(t.rows), LAMBDA r :
              IF (r - 1) \in labels THEN <<>>
              ELSE <<[c \in DOMAIN t.rows[r] \cup {"index"} |->
                        IF c = "index" THEN IntC(r - 1) ELSE t.rows[r][c]]>>))

drop(t, labels) ==
    Table(t.cols,
          FlatMap(Len(t.rows), LAMBDA r :
              IF (r - 1) \in labels THEN <<>> ELSE <<t.rows[r]>>))

\* ------------------------------------------------------------------------
\* Reports
\* ------------------------------------------------------------------------
NoFile == [written |-> FALSE, header |-> <<>>, rows |-> <<>>]

File(h, rs) == [written |-> TRUE, header |-> h, rows |-> rs]

\* pd.DataFrame(list_of_dicts).to_csv(index=False): the columns are the keys of
\* the dicts, so an empty list gives a frame without columns and a file
\* without a header
to_csv_records(ex) == File(IF ex = <<>> THEN <<>> ELSE ReportHeader, ex)

\* pd.DataFrame([], columns=[...]).to_csv(index=False)
to_csv_columns(h) == File(h, <<>>)

\* DataFrame.to_csv(index=False) of a Row Set
to_csv_table(t) == File(t.cols, t.rows)

\* len(pd.read_csv(file)): a file without a header raises EmptyDataError
read_csv_len(f) == IF f.header = <<>> THEN Raised ELSE Num(Len(f.rows))

\* ------------------------------------------------------------------------
\* Inputs: the tables or views the run reads.  A column has one dtype, as
\* pd.read_sql delivers it: int64 (integers), float64 (floats and NaN) or
\* object (text and None).
\* ------------------------------------------------------------------------
Seqs(S, n) == UNION {[1..k -> S] : k \in 0..n}

\* keep only the columns of t that are in keep
Project(t, keep) ==
    Table(SelectSeq(t.cols, LAMBDA c : c \in keep),
          [r \in 1..Len(t.rows) |->
              [c \in {t.cols[k] : k \in 1..Len(t.cols)} \cap keep |-> t.rows[r][c]]])

DeptCols == <<"Department_ID", "Department_Name", "DOE">>

DeptRow(i, nm, doe) == [Department_ID |-> i, Department_Name |-> nm, DOE |-> doe]

DeptIdText  == {StrC(<<"1">>), StrC(<<"2">>), None}
DeptIdInt   == {IntC(1), IntC(2)}
DeptIdFloat == {FloatC(10), NaN}
DeptNames   == {StrC(<<"C", "S">>), StrC(<<"E", "E">>)}
DOEInt      == {IntC(1899), IntC(1900)}
DOEFloat    == {NaN, FloatC(20000)}
DOEText     == {None, StrC(<<"a", "b", "c">>), StrC(<<"2", "0", "0", "0">>)}

DeptTables(idTypes, doeTypes, n) ==
    UNION {{Table(DeptCols, rs) :
              rs \in Seqs({DeptRow(i, nm, d) : i \in I, nm \in DeptNames, d \in D}, n)} :
           I \in idTypes, D \in doeTypes}

\* Department tables with every kind of DOE value
DeptRich == DeptTables({DeptIdText}, {DOEInt, DOEFloat, DOEText}, MaxDeptRows)

\* a Department table without violation, and one with a duplicated key
DeptOK  == Table(DeptCols, <<DeptRow(StrC(<<"1">>), StrC(<<"C", "S">>), IntC(2000)),
                             DeptRow(StrC(<<"2">>), StrC(<<"E", "E">>), IntC(1990))>>)
DeptBad == Table(DeptCols, <<DeptRow(StrC(<<"1">>), StrC(<<"C", "S">>), IntC(2000)),
                             DeptRow(StrC(<<"1">>), StrC(<<"E", "E">>), IntC(1990))>>)

\* Department tables as key sets for the Counseling rules
DeptKeys ==
    {DeptOK, Table(DeptCols, <<>>), Project(DeptOK, {"Department_Name", "DOE"}),
     Table(DeptCols, <<DeptRow(None, StrC(<<"C", "S">>), IntC(2000))>>),
     Table(DeptCols, <<DeptRow(IntC(1), StrC(<<"C", "S">>), IntC(2000))>>),
     Table(DeptCols, <<DeptRow(FloatC(10), StrC(<<"C", "S">>), IntC(2000)),
                       DeptRow(NaN, StrC(<<"E", "E">>), IntC(1990))>>)}

\* a Department table with null cells
DeptNulls == Table(DeptCols, <<DeptRow(None, StrC(<<"C", "S">>), FloatC(20000)),
                               DeptRow(StrC(<<"1">>), StrC(<<"C", "S">>), NaN)>>)

DeptSamples == {DeptOK, DeptBad, DeptNulls}

\* Department tables with columns absent
DeptPartial ==
    {Project(t, keep) : t \in DeptSamples, keep \in SUBSET {"Department_ID", "Department_Name", "DOE"}}

StudCols == <<"Student_ID", "Department_Admission">>

StudRow(sid, adm) == [Student_ID |-> sid, Department_Admission |-> adm]

AdmText  == {None, StrC(<<>>), StrC(<<" ">>), StrC(<<"1">>), StrC(<<" ", "1", " ">>),
             StrC(<<"9", "9">>)}
AdmInt   == {IntC(1), IntC(99)}
AdmFloat == {NaN, FloatC(10)}

StudTables(admTypes, n) ==
    UNION {{Table(StudCols, [r \in 1..Len(as) |-> StudRow(IntC(r), as[r])]) :
              as \in Seqs(A, n)} : A \in admTypes}

StudRich == StudTables({AdmText, AdmInt, AdmFloat}, MaxStudRows)

StudOK  == Table(StudCols, <<StudRow(IntC(7), StrC(<<"1">>))>>)
StudBad == Table(StudCols, <<StudRow(IntC(7), StrC(<<>>)), StudRow(IntC(8), StrC(<<"9", "9">>))>>)

StudSamples == {StudOK, StudBad}

\* Counseling tables without Department_Admission
StudPartial == {Project(t, keep) : t \in StudSamples, keep \in {{"Student_ID"}}}

PerfCols == <<"Student_ID", "Paper_ID", "Paper_Name", "Marks", "Effort_Hours">>

PerfRow(sid, pid, nm, m, e) ==
    [Student_ID |-> sid, Paper_ID |-> pid, Paper_Name |-> nm, Marks |-> m, Effort_Hours |-> e]

MarksInt    == {IntC(0), IntC(100), IntC(101)}
MarksFloat  == {NaN, FloatC(1005), FloatC(0 - 5), FloatC(505)}
MarksText   == {None, StrC(<<"a", "b", "c">>), StrC(<<" ", "5", "0">>), StrC(<<"1", "5", "0">>)}
EffortInt   == {IntC(0), IntC(0 - 1), IntC(3)}
EffortFloat == {NaN, FloatC(35), FloatC(0), FloatC(0 - 5)}
EffortText  == {None, StrC(<<"3", ".", "5">>), StrC(<<" ", "3", " ">>), StrC(<<"-", "1">>)}

PaperName == StrC(<<"M", "a", "t", "h">>)

\* Performance tables with every kind of Marks and Effort_Hours value; the
\* keys differ from row to row and no other column is null
PerfValues ==
    UNION {{Table(PerfCols, [r \in 1..Len(vs) |->
                PerfRow(IntC(r), IntC(9), PaperName, vs[r][1], vs[r][2])]) :
              vs \in Seqs(M \X E, MaxPerfRows)} :
           M \in {MarksInt, MarksFloat, MarksText}, E \in {EffortInt, EffortFloat, EffortText}}

\* Performance tables with repeated keys and null cells outside Marks and
\* Effort_Hours
PerfKeys ==
    {Table(PerfCols, rs) :
       rs \in Seqs({PerfRow(sid, pid, nm, m, IntC(3)) :
                      sid \in {IntC(5), IntC(6)}, pid \in {IntC(9), IntC(8)},
                      nm \in {PaperName, None}, m \in {IntC(50), IntC(150)}},
                   MaxPerfRows)}

PerfOK  == Table(PerfCols, <<PerfRow(IntC(5), IntC(9), PaperName, IntC(50), IntC(3))>>)
PerfBad == Table(PerfCols, <<PerfRow(IntC(5), IntC(9), PaperName, IntC(150), IntC(3)),
                             PerfRow(IntC(6), IntC(9), PaperName, IntC(50), IntC(3))>>)
PerfDup == Table(PerfCols, <<PerfRow(IntC(5), IntC(9), PaperName, IntC(50), IntC(3)),
                             PerfRow(IntC(5), IntC(9), PaperName, IntC(60), IntC(4))>>)
PerfAllBad == Table(PerfCols, <<PerfRow(IntC(5), IntC(9), None, IntC(150), IntC(0 - 1)),
                                PerfRow(IntC(5), IntC(9), PaperName, IntC(50), IntC(0 - 3))>>)

\* a Performance table whose only null cells are in Marks and Effort_Hours
PerfNulls == Table(PerfCols, <<PerfRow(IntC(5), IntC(9), PaperName, NaN, FloatC(30)),
                               PerfRow(IntC(6), IntC(9), PaperName, FloatC(505), NaN)>>)

PerfSamples == {PerfOK, PerfDup, PerfAllBad, PerfNulls}

\* Performance tables with columns absent
PerfPartial ==
    {Project(t, keep \cup {"Paper_Name"}) :
       t \in PerfSamples,
       keep \in SUBSET {"Student_ID", "Paper_ID", "Marks", "Effort_Hours"}}

EmpCols == <<"Employee_ID", "Email", "Department_ID">>

EmpTable ==
    Table(EmpCols, <<[Employee_ID |-> StrC(<<"e", "1">>), Email |-> None,
                      Department_ID |-> StrC(<<"1">>)]>>)

Store(d, s, p) ==
    [Department_Information |-> d, Employee_Information |-> EmpTable,
     Student_Counceling_Information |-> s, Student_Performance_Data |-> p]

Stores ==
    {Store(d, StudBad, PerfBad) : d \in DeptRich \cup DeptPartial}
    \cup {Store(d, s, PerfBad) : d \in DeptKeys, s \in StudRich \cup StudPartial}
    \cup {Store(DeptBad, StudBad, p) : p \in PerfValues \cup PerfKeys \cup PerfPartial}
    \cup {Store(d, s, p) : d \in {DeptOK, DeptBad}, s \in {StudOK, StudBad},
                           p \in {PerfOK, PerfBad, PerfDup, Table(PerfCols, <<>>)}}

\* ------------------------------------------------------------------------
\* State
\* ------------------------------------------------------------------------
VARIABLES
    pc,           \* position of the run inside run_part2_etl
    store,        \* the tables or views of the database
    dept, stud, perf,            \* the Row Sets read from the store
    dept_ex, stud_ex, perf_ex,   \* the exception ledgers
    discard_idx,  \* the Performance discard set
    perf_clean,   \* the cleaned Performance Row Set
    clean_table,  \* table Student_Performance_Data_Clean of the database
    files,        \* the CSV files of the output directory
    run,          \* number of the current call of run_part2_etl
    prev          \* ledgers and discard set the previous call ended with

vars == <<run, prev, pc, store, dept, stud, perf, dept_ex, stud_ex, perf_ex, discard_idx,
          perf_clean, clean_table, files>>

NoTable == Table(<<>>, <<>>)

FileNames ==
    {"Department_Information_exceptions.csv", "Employee_Information_exceptions.csv",
     "Student_Counceling_Information_exceptions.csv",
     "Student_Performance_Data_exceptions.csv", "Student_Performance_Data_cleaned.csv",
     "ETL_Exception_Summary.csv"}

\* mutant: the ledger list outlives the call (a module-level list)
NewLedger_kept(old) == old

\* dept_ex = [], stud_ex = [], perf_ex = []: a ledger starts empty in every
\* call, whatever an earlier call has left
NewLedger(old) == <<>>

\* discard_idx = set()
NewDiscard(old) == {}

Snapshot(de, se, pe, di) == [dept_ex |-> de, stud_ex |-> se, perf_ex |-> pe, discard_idx |-> di]

Init ==
    /\ pc = "load"
    /\ run = 1
    /\ prev = Snapshot(<<>>, <<>>, <<>>, {})
    /\ store \in Stores
    /\ dept = NoTable /\ stud = NoTable /\ perf = NoTable
    /\ dept_ex = <<>> /\ stud_ex = <<>> /\ perf_ex = <<>>
    /\ discard_idx = {}
    /\ perf_clean = NoTable
    /\ clean_table = NoTable
    /\ files = [f \in FileNames |-> NoFile]

\* pd.read_sql of the four objects
Load ==
    /\ pc = "load"
    /\ dept' = store.Department_Information
    /\ stud' = store.Student_Counceling_Information
    /\ perf' = store.Student_Performance_Data
    /\ pc' = "dept_missing"
    /\ UNCHANGED <<run, prev, store, dept_ex, stud_ex, perf_ex, discard_idx, perf_clean,
                   clean_table, files>>

\* Department: null cells
DeptMissing ==
    /\ pc = "dept_missing"
    /\ dept_ex' = NewLedger(dept_ex) \o DeptMissingRule(dept)
    /\ pc' = "dept_dup_key"
    /\ UNCHANGED <<run, prev, store, dept, stud, perf, stud_ex, perf_ex, discard_idx, perf_clean,
                   clean_table, files>>

\* Department: duplicated Department_ID
DeptDupKey ==
    /\ pc = "dept_dup_key"
    /\ dept_ex' = dept_ex \o DeptDupKeyRule(dept)
    /\ pc' = "dept_dup_name"
    /\ UNCHANGED <<run, prev, store, dept, stud, perf, stud_ex, perf_ex, discard_idx, perf_clean,
                   clean_table, files>>

\* Department: duplicated Department_Name
DeptDupName ==
    /\ pc = "dept_dup_name"
    /\ dept_ex' = dept_ex \o DeptDupNameRule(dept)
    /\ pc' = "dept_doe"
    /\ UNCHANGED <<run, prev, store, dept, stud, perf, stud_ex, perf_ex, discard_idx, perf_clean,
                   clean_table, files>>

\* Department: DOE
DeptDOE ==
    /\ pc = "dept_doe"
    /\ dept_ex' = dept_ex \o DeptDOERule(dept)
    /\ pc' = "dept_report"
    /\ UNCHANGED <<run, prev, store, dept, stud, perf, stud_ex, perf_ex, discard_idx, perf_clean,
                   clean_table, files>>

\* pd.DataFrame(dept_ex).to_csv
DeptReport ==
    /\ pc = "dept_report"
    /\ files' = [files EXCEPT !["Department_Information_exceptions.csv"] = to_csv_records(dept_ex)]
    /\ pc' = "emp_report"
    /\ UNCHANGED <<run, prev, store, dept, stud, perf, dept_ex, stud_ex, perf_ex, discard_idx,
                   perf_clean, clean_table>>

\* Employee: no rule, an empty report with the four columns
EmpReport ==
    /\ pc = "emp_report"
    /\ files' = [files EXCEPT !["Employee_Information_exceptions.csv"] = to_csv_columns(ReportHeader)]
    /\ pc' = "stud_missing"
    /\ UNCHANGED <<run, prev, store, dept, stud, perf, dept_ex, stud_ex, perf_ex, discard_idx,
                   perf_clean, clean_table>>

\* Counseling: Department_Admission required
StudMissing ==
    /\ pc = "stud_missing"
    /\ stud_ex' = NewLedger(stud_ex) \o StudMissingRule(stud)
    /\ pc' = "stud_fk"
    /\ UNCHANGED <<run, prev, store, dept, stud, perf, dept_ex, perf_ex, discard_idx, perf_clean,
                   clean_table, files>>

\* Counseling: Department_Admission must be a Department_ID
StudFK ==
    /\ pc = "stud_fk"
    /\ stud_ex' = stud_ex \o StudFKRule(stud, dept)
    /\ pc' = "stud_report"
    /\ UNCHANGED <<run, prev, store, dept, stud, perf, dept_ex, perf_ex, discard_idx, perf_clean,
                   clean_table, files>>

\* pd.DataFrame(stud_ex).to_csv
StudReport ==
    /\ pc = "stud_report"
    /\ files' = [files EXCEPT !["Student_Counceling_Information_exceptions.csv"] = to_csv_records(stud_ex)]
    /\ pc' = "perf_missing"
    /\ UNCHANGED <<run, prev, store, dept, stud, perf, dept_ex, stud_ex, perf_ex, discard_idx,
                   perf_clean, clean_table>>

\* Performance: rows with a null cell
PerfMissing ==
    /\ pc = "perf_missing"
    /\ perf_ex' = NewLedger(perf_ex) \o PerfMissingRule(perf).ex
    /\ discard_idx' = NewDiscard(discard_idx) \cup PerfMissingRule(perf).discard
    /\ pc' = "perf_marks"
    /\ UNCHANGED <<run, prev, store, dept, stud, perf, dept_ex, stud_ex, perf_clean, clean_table,
                   files>>

\* mutant: the Marks exceptions are put in front of the ledger
PerfMarks_prepends ==
    /\ pc = "perf_marks"
    /\ perf_ex' = PerfMarksRule(perf).ex \o perf_ex
    /\ discard_idx' = discard_idx \cup PerfMarksRule(perf).discard
    /\ pc' = "perf_effort"
    /\ UNCHANGED <<run, prev, store, dept, stud, perf, dept_ex, stud_ex, perf_clean, clean_table,
                   files>>

\* Performance: Marks
PerfMarks ==
    /\ pc = "perf_marks"
    /\ perf_ex' = perf_ex \o PerfMarksRule(perf).ex
    /\ discard_idx' = discard_idx \cup PerfMarksRule(perf).discard
    /\ pc' = "perf_effort"
    /\ UNCHANGED <<run, prev, store, dept, stud, perf, dept_ex, stud_ex, perf_clean, clean_table,
                   files>>

\* Performance: Effort_Hours
PerfEffort ==
    /\ pc = "perf_effort"
    /\ perf_ex' = perf_ex \o PerfEffortRule(perf).ex
    /\ discard_idx' = discard_idx \cup PerfEffortRule(perf).discard
    /\ pc' = "perf_dup_pair"
    /\ UNCHANGED <<run, prev, store, dept, stud, perf, dept_ex, stud_ex, perf_clean, clean_table,
                   files>>

\* Performance: repeated (Student_ID, Paper_ID)
PerfDupPair ==
    /\ pc = "perf_dup_pair"
    /\ perf_ex' = perf_ex \o PerfDupPairRule(perf).ex
    /\ discard_idx' = discard_idx \cup PerfDupPairRule(perf).discard
    /\ pc' = "perf_report"
    /\ UNCHANGED <<run, prev, store, dept, stud, perf, dept_ex, stud_ex, perf_clean, clean_table,
                   files>>

\* pd.DataFrame(perf_ex).to_csv
PerfReport ==
    /\ pc = "perf_report"
    /\ files' = [files EXCEPT !["Student_Performance_Data_exceptions.csv"] = to_csv_records(perf_ex)]
    /\ pc' = "clean"
    /\ UNCHANGED <<run, prev, store, dept, stud, perf, dept_ex, stud_ex, perf_ex, discard_idx,
                   perf_clean, clean_table>>

\* the cleaned Row Set and its CSV
Clean ==
    /\ pc = "clean"
    /\ perf_clean' = drop(perf, discard_idx)
    /\ files' = [files EXCEPT !["Student_Performance_Data_cleaned.csv"] =
                                  to_csv_table(perf_clean')]
    /\ pc' = "to_sql"
    /\ UNCHANGED <<run, prev, store, dept, stud, perf, dept_ex, stud_ex, perf_ex, discard_idx,
                   clean_table>>

\* DROP TABLE IF EXISTS and perf_clean.to_sql(if_exists="replace")
ToSql ==
    /\ pc = "to_sql"
    /\ clean_table' = perf_clean
    /\ pc' = "summary"
    /\ UNCHANGED <<run, prev, store, dept, stud, perf, dept_ex, stud_ex, perf_ex, discard_idx,
                   perf_clean, files>>

SummaryOrder ==
    <<"Department_Information", "Employee_Information",
      "Student_Counceling_Information", "Student_Performance_Data">>

ReportFile(dataset) ==
    CASE dataset = "Department_Information" -> "Department_Information_exceptions.csv"
      [] dataset = "Employee_Information" -> "Employee_Information_exceptions.csv"
      [] dataset = "Student_Counceling_Information" ->
            "Student_Counceling_Information_exceptions.csv"
      [] OTHER -> "Student_Performance_Data_exceptions.csv"

\* the four reports are read back; every one of them must be readable
SummaryReadable ==
    \A k \in 1..Len(SummaryOrder) : read_csv_len(files[ReportFile(SummaryOrder[k])]).ok

SummaryRows ==
    [k \in 1..Len(SummaryOrder) |->
        [dataset |-> SummaryOrder[k],
         exceptions |-> read_csv_len(files[ReportFile(SummaryOrder[k])]).n]]

Summary ==
    /\ pc = "summary"
    /\ SummaryReadable
    /\ files' = [files EXCEPT !["ETL_Exception_Summary.csv"] =
                                  File(<<"dataset", "exceptions">>, SummaryRows)]
    /\ pc' = "done"
    /\ UNCHANGED <<run, prev, store, dept, stud, perf, dept_ex, stud_ex, perf_ex, discard_idx,
                   perf_clean, clean_table>>

\* pd.read_csv raises EmptyDataError: the run ends without a summary
SummaryAbort ==
    /\ pc = "summary"
    /\ ~SummaryReadable
    /\ pc' = "aborted"
    /\ UNCHANGED <<run, prev, store, dept, stud, perf, dept_ex, stud_ex, perf_ex, discard_idx,
                   perf_clean, clean_table, files>>

\* run_part2_etl is called again on the same tables; the files and the
\* table of the earlier call are still there
Rerun ==
    /\ pc \in {"done", "aborted"}
    /\ run < MaxRuns
    /\ run' = run + 1
    /\ prev' = Snapshot(dept_ex, stud_ex, perf_ex, discard_idx)
    /\ pc' = "load"
    /\ UNCHANGED <<store, dept, stud, perf, dept_ex, stud_ex, perf_ex, discard_idx,
                   perf_clean, clean_table, files>>

Next ==
    \/ Rerun
    \/ Load
    \/ DeptMissing \/ DeptDupKey \/ DeptDupName \/ DeptDOE \/ DeptReport
    \/ EmpReport
    \/ StudMissing \/ StudFK \/ StudReport
    \/ PerfMissing \/ PerfMarks \/ PerfEffort \/ PerfDupPair \/ PerfReport
    \/ Clean \/ ToSql
    \/ Summary \/ SummaryAbort

Spec == Init /\ [][Next]_vars

\* ------------------------------------------------------------------------
\* Positions of the run
\* ------------------------------------------------------------------------
PcOrder ==
    <<"load", "dept_missing", "dept_dup_key", "dept_dup_name", "dept_doe", "dept_report",
      "emp_report", "stud_missing", "stud_fk", "stud_report", "perf_missing",
      "perf_marks", "perf_effort", "perf_dup_pair", "perf_report", "clean", "to_sql",
      "summary", "done">>

Rank(p) == IF p = "aborted" THEN Len(PcOrder) ELSE CHOOSE k \in 1..Len(PcOrder) : PcOrder[k] = p

\* the run has left position p behind
Past(p) == Rank(pc) > Rank(p)

TypeOK ==
    /\ pc \in {PcOrder[k] : k \in 1..Len(PcOrder)} \cup {"aborted"}
    /\ discard_idx \subseteq Int
    /\ DOMAIN files = FileNames

\* number of records of ledger ex for row label i, column c and issue type it
Count(ex, i, c, it) ==
    Cardinality({k \in 1..Len(ex) :
        ex[k].row_index = i /\ ex[k].column = c /\ ex[k].issue_type = it})

Labels(t) == 0..(Len(t.rows) - 1)

\* ------------------------------------------------------------------------
\* C1  The cleaned Performance Row Set is exactly the rows of the original
\* whose index is not in the discard set, in their original order, under the
\* new indices 0..k-1 with k = n - |D|.
\* ------------------------------------------------------------------------
KeptLabels == Labels(perf) \ discard_idx

\* the j-th smallest retained label
NthKept(j) == CHOOSE i \in KeptLabels : Cardinality({x \in KeptLabels : x < i}) = j - 1

C1_CleanedIsRetainedSubsequence ==
    Past("clean") =>
        /\ Len(perf_clean.rows) = Len(perf.rows) - Cardinality(discard_idx)
        /\ \A j \in 1..Len(perf_clean.rows) : perf_clean.rows[j] = perf.rows[NthKept(j) + 1]

\* the first row is discarded and a later row moves up to index 0
C1_Witness ==
    /\ Past("clean")
    /\ 0 \in discard_idx
    /\ Len(perf_clean.rows) >= 1
    /\ perf_clean.rows[1] # perf.rows[1]

\* ------------------------------------------------------------------------
\* C2  Every row of the cleaned Performance Row Set has Marks in [0,100] and
\* a whole, non-negative Effort_Hours.  The number of a cell is the number
\* the cell denotes (text "50" denotes 50).
\* ------------------------------------------------------------------------
C2_CleanedValuesValid ==
    Past("clean") =>
        \A j \in 1..Len(perf_clean.rows) :
            /\ HasCol(perf_clean, "Marks") =>
                 LET f == float(perf_clean.rows[j]["Marks"])
                 IN  f.ok /\ f.kind = "num" /\ 0 <= f.n /\ f.n <= 1000
            /\ HasCol(perf_clean, "Effort_Hours") =>
                 LET v == perf_clean.rows[j]["Effort_Hours"]
                 IN  /\ float(v).ok /\ float(v).kind = "num"
                     /\ float(v).n >= 0
                     /\ float(v).n % 10 = 0

C2_Witness ==
    /\ Past("clean")
    /\ discard_idx # {}
    /\ Len(perf_clean.rows) >= 1
    /\ HasCol(perf_clean, "Marks") /\ HasCol(perf_clean, "Effort_Hours")

\* ------------------------------------------------------------------------
\* C3  After the Performance rules, a row index is in the discard set iff the
\* ledger holds for it a row-level Missing exception, or an Invalid Type or
\* Out-of-Range exception on Marks or on Effort_Hours.
\* ------------------------------------------------------------------------
Disqualifying(e) ==
    \/ e.column = "(row)" /\ e.issue_type = "Missing"
    \/ e.column \in {"Marks", "Effort_Hours"}
         /\ e.issue_type \in {"Invalid Type", "Out-of-Range"}

PolicyDiscard(ex) == {ex[k].row_index : k \in {j \in 1..Len(ex) : Disqualifying(ex[j])}}

C3_DiscardSetIsPolicy == Past("perf_dup_pair") => discard_idx = PolicyDiscard(perf_ex)

\* a ledger with disqualifying exceptions and with a reported row that stays
C3_Witness ==
    /\ Past("perf_dup_pair")
    /\ discard_idx # {}
    /\ \E k \in 1..Len(perf_ex) :
         perf_ex[k].issue_type = "Duplicate Pair" /\ perf_ex[k].row_index \notin discard_idx
    /\ \E k \in 1..Len(perf_ex) : perf_ex[k].column = "Marks"

\* ------------------------------------------------------------------------
\* C4  When the only violation of a Performance Row Set is a repeated
\* (Student_ID, Paper_ID) pair, every row of each repeated pair is reported
\* as Duplicate Pair and the cleaned Row Set keeps the row count of the input.
\* ------------------------------------------------------------------------
OnlyDuplicatePairs ==
    /\ perf_ex # <<>>
    /\ \A k \in 1..Len(perf_ex) : perf_ex[k].issue_type = "Duplicate Pair"

SamePair(a, b) == a["Student_ID"] = b["Student_ID"] /\ a["Paper_ID"] = b["Paper_ID"]

C4_DuplicatePairsAreKept ==
    (Past("perf_dup_pair") /\ OnlyDuplicatePairs) =>
        /\ discard_idx = {}
        /\ \A r \in 1..Len(perf.rows) :
             (\E q \in 1..Len(perf.rows) : q # r /\ SamePair(perf.rows[q], perf.rows[r]))
                => Count(perf_ex, r - 1, "Student_ID,Paper_ID", "Duplicate Pair") = 1
        /\ Past("clean") => Len(perf_clean.rows) = Len(perf.rows)

C4_Witness ==
    /\ Past("clean")
    /\ OnlyDuplicatePairs
    /\ Len(perf_ex) >= 2
    /\ Len(perf_clean.rows) = Len(perf.rows)

\* ------------------------------------------------------------------------
\* C5  Row count and columns of the cleaned Row Set against the input.
\* ------------------------------------------------------------------------
\* C5 as stated: the cleaned Row Set always has strictly fewer rows
C5_StrictlyFewerRows ==
    Past("clean") =>
        /\ Len(perf_clean.rows) < Len(perf.rows)
        /\ perf_clean.cols = perf.cols

\* C5 amended: the cleaned Row Set has exactly n - |D| rows, never more than
\* the input and strictly fewer exactly when the discard set is not empty;
\* its columns are those of the input, and so are the fields of every row.
C5_NoMoreRowsSameColumns ==
    Past("clean") =>
        /\ Len(perf_clean.rows) <= Len(perf.rows)
        /\ Len(perf_clean.rows) < Len(perf.rows) <=> discard_idx # {}
        /\ perf_clean.cols = perf.cols
        /\ \A j \in 1..Len(perf_clean.rows) :
             DOMAIN perf_clean.rows[j] = {perf.cols[k] : k \in 1..Len(perf.cols)}

\* a run that discards nothing, and whose input is not empty
C5_Witness ==
    /\ Past("clean")
    /\ discard_idx = {}
    /\ Len(perf.rows) >= 1
    /\ Len(perf_clean.rows) = Len(perf.rows)

\* ------------------------------------------------------------------------
\* C6  Every entity's exception report carries the header row_index, column,
\* issue_type, details, also when the entity has no exception.
\* ------------------------------------------------------------------------
ReportFiles == {ReportFile(SummaryOrder[k]) : k \in 1..Len(SummaryOrder)}

C6_ReportsCarryHeader ==
    \A f \in ReportFiles : files[f].written => files[f].header = ReportHeader

\* ------------------------------------------------------------------------
\* C7  Every run on well-formed input completes: the four reports, the
\* cleaned set and the summary are produced, the summary has one count per
\* entity in the order Department, Employee, Counseling, Performance, and
\* each count is the number of exceptions recorded for the entity.
\* ------------------------------------------------------------------------
LedgerOf(dataset) ==
    CASE dataset = "Department_Information" -> dept_ex
      [] dataset = "Employee_Information" -> <<>>
      [] dataset = "Student_Counceling_Information" -> stud_ex
      [] OTHER -> perf_ex

SummaryComplete ==
    LET sm == files["ETL_Exception_Summary.csv"]
    IN  /\ \A f \in FileNames : files[f].written
        /\ Len(sm.rows) = 4
        /\ \A k \in 1..4 :
             /\ sm.rows[k].dataset = SummaryOrder[k]
             /\ sm.rows[k].exceptions = Len(LedgerOf(SummaryOrder[k]))

C7_RunCompletes ==
    /\ pc # "aborted"
    /\ pc = "done" => SummaryComplete

\* ------------------------------------------------------------------------
\* C8  Typed rules (Department DOE, Performance Marks and Effort_Hours) and
\* values that cannot be coerced to the type of the rule.
\* ------------------------------------------------------------------------
\* the typed rule left exactly one record for (row, column) in the ledger, of
\* issue type it (the Missing records of the null rules are not its records)
OnlyIssue(ex, i, c, it) ==
    /\ Count(ex, i, c, it) = 1
    /\ \A k \in 1..Len(ex) :
         (ex[k].row_index = i /\ ex[k].column = c
            /\ ex[k].issue_type \in {"Invalid Type", "Out-of-Range"})
                => ex[k].issue_type = it

\* the rule of column c has run on table t
TypedRuleRan(c) ==
    CASE c = "DOE" -> Past("dept_doe") /\ ~empty(dept) /\ HasCol(dept, "DOE")
      [] c = "Marks" -> Past("perf_marks") /\ ~empty(perf) /\ HasCol(perf, "Marks")
      [] OTHER -> Past("perf_effort") /\ ~empty(perf) /\ HasCol(perf, "Effort_Hours")

TypedTable(c) == IF c = "DOE" THEN dept ELSE perf

TypedLedger(c) == IF c = "DOE" THEN dept_ex ELSE perf_ex

\* the conversion the rule of column c applies
Coerce(c, v) == IF c = "Marks" THEN float(v) ELSE int(v)

TypedColumns == {"DOE", "Marks", "Effort_Hours"}

\* C8 as stated: a null or a value the conversion rejects always yields
\* Invalid Type, and no other issue type, for its row and column
C8_UncoercibleIsInvalidType ==
    \A c \in TypedColumns :
        TypedRuleRan(c) =>
            \A r \in 1..Len(TypedTable(c).rows) :
                LET v == TypedTable(c).rows[r][c]
                IN  (isna(v) \/ ~Coerce(c, v).ok)
                        => OnlyIssue(TypedLedger(c), r - 1, c, "Invalid Type")

\* C8 amended: a value that is not null and that the conversion rejects
\* always yields exactly one exception for its row and column, of type
\* Invalid Type, and so does a null Effort_Hours and a None in Marks; a null
\* DOE and a NaN in Marks yield exactly one Out-of-Range exception instead.
\* No typed rule ends the run: only the summary step can.
IssueOfUncoercible(c, v) ==
    IF isna(v) /\ (c = "DOE" \/ (c = "Marks" /\ v.t = "nan"))
    THEN "Out-of-Range" ELSE "Invalid Type"

C8_UncoercibleIsReported ==
    /\ \A c \in TypedColumns :
        TypedRuleRan(c) =>
            \A r \in 1..Len(TypedTable(c).rows) :
                LET v == TypedTable(c).rows[r][c]
                IN  (isna(v) \/ ~Coerce(c, v).ok)
                        => OnlyIssue(TypedLedger(c), r - 1, c, IssueOfUncoercible(c, v))
    /\ pc = "aborted" => ~SummaryReadable

\* a text that is no number in Marks, reported as Invalid Type
C8_Witness ==
    /\ Past("perf_marks")
    /\ HasCol(perf, "Marks")
    /\ \E r \in 1..Len(perf.rows) :
         /\ perf.rows[r]["Marks"].t = "str"
         /\ ~float(perf.rows[r]["Marks"]).ok
         /\ Count(perf_ex, r - 1, "Marks", "Invalid Type") = 1

\* ------------------------------------------------------------------------
\* C9  Counseling: a row whose Department_Admission is null or empty after
\* trimming gets exactly one Missing exception and no FK Violation; no row
\* carries both a Missing and an FK Violation exception.
\* ------------------------------------------------------------------------
Blank(v) == isna(v) \/ (v.t = "str" /\ strip(v.s) = <<>>)

C9_MissingExcludesFK ==
    (Past("stud_fk") /\ StudApplies(stud)) =>
        \A r \in 1..Len(stud.rows) :
            /\ Blank(stud.rows[r]["Department_Admission"]) =>
                 /\ Count(stud_ex, r - 1, "Department_Admission", "Missing") = 1
                 /\ Count(stud_ex, r - 1, "Department_Admission", "FK Violation") = 0
            /\ ~(/\ Count(stud_ex, r - 1, "Department_Admission", "Missing") > 0
                 /\ Count(stud_ex, r - 1, "Department_Admission", "FK Violation") > 0)

\* ------------------------------------------------------------------------
\* C10  The row_index of every exception is the 0-based position of the
\* offending row in the raw Row Set of its entity, the discard set holds raw
\* positions only, and cleaning re-numbers neither.
\* ------------------------------------------------------------------------
\* the row of raw table t at label e.row_index shows the violation e reports
Offends(t, e) ==
    LET row == t.rows[e.row_index + 1]
    IN  CASE e.issue_type = "Missing" /\ e.column = "(row)" ->
                \E k \in 1..Len(t.cols) : isna(row[t.cols[k]])
          [] e.issue_type = "Missing" /\ e.column # "(row)" -> Blank(row[e.column])
          [] e.issue_type = "Duplicate Pair" ->
                \E q \in 1..Len(t.rows) : q # e.row_index + 1 /\ SamePair(t.rows[q], row)
          [] e.issue_type \in {"Duplicate Key", "Duplicate Value"} ->
                \E q \in 1..Len(t.rows) :
                    q # e.row_index + 1 /\ t.rows[q][e.column] = row[e.column]
          [] e.issue_type = "FK Violation" -> ~Blank(row[e.column]) \/ isna(row[e.column])
          [] e.column = "Marks" ->
                ~(float(row["Marks"]).kind = "num"
                    /\ float(row["Marks"]).n \in 0..1000)
          [] e.column = "Effort_Hours" ->
                ~(float(row["Effort_Hours"]).kind = "num"
                    /\ float(row["Effort_Hours"]).n >= 0
                    /\ float(row["Effort_Hours"]).n % 10 = 0)
          [] OTHER -> ~(int(row["DOE"]).ok /\ int(row["DOE"]).n >= 1900)

RowIndexIsRaw(ex, t) ==
    \A k \in 1..Len(ex) : ex[k].row_index \in Labels(t) /\ Offends(t, ex[k])

C10_RowIndexIsRawPosition ==
    /\ RowIndexIsRaw(dept_ex, dept)
    /\ RowIndexIsRaw(stud_ex, stud)
    /\ RowIndexIsRaw(perf_ex, perf)
    /\ discard_idx \subseteq Labels(perf)
    /\ \A i \in discard_idx : \E k \in 1..Len(perf_ex) : perf_ex[k].row_index = i
    /\ Past("load") => perf = store.Student_Performance_Data

\* after cleaning, an exception still names the last raw row, whose label no
\* row of the cleaned set carries any more
C10_Witness ==
    /\ Past("clean")
    /\ Len(perf.rows) >= 2
    /\ Len(perf_clean.rows) < Len(perf.rows)
    /\ (Len(perf.rows) - 1) \in discard_idx
    /\ \E k \in 1..Len(perf_ex) : perf_ex[k].row_index = Len(perf.rows) - 1
    /\ \E k \in 1..Len(dept_ex) : dept_ex[k].row_index = Len(dept.rows) - 1
    /\ \E k \in 1..Len(stud_ex) : stud_ex[k].row_index = Len(stud.rows) - 1

\* ------------------------------------------------------------------------
\* C11  An expected column that is absent: its rules are skipped, leave no
\* exception and no discard entry, raise no error, and the other rules of
\* the entity produce what they produce when the column is present.
\* ------------------------------------------------------------------------
ColSet(t) == {t.cols[k] : k \in 1..Len(t.cols)}

\* the ledgers the rules produce on a table, in the order of the run
DeptLedger(t) ==
    DeptMissingRule(t) \o DeptDupKeyRule(t) \o DeptDupNameRule(t) \o DeptDOERule(t)

StudLedger(t, d) == StudMissingRule(t) \o StudFKRule(t, d)

PerfLedger(t) ==
    PerfMissingRule(t).ex \o PerfMarksRule(t).ex \o PerfEffortRule(t).ex
        \o PerfDupPairRule(t).ex

\* the column name the rules of expected column c write into their records
RuleColumn(c) == IF c \in {"Student_ID", "Paper_ID"} THEN "Student_ID,Paper_ID" ELSE c

\* ledger ex without the records of the rules of column c
WithoutColumn(ex, c) == SelectSeq(ex, LAMBDA e : e.column \notin {c, RuleColumn(c)})

\* the tables with column c present of which t is the part without c
WithColumn(samples, t, c) ==
    {u \in {Project(x, ColSet(t) \cup {c}) : x \in samples} :
        HasCol(u, c) /\ Project(u, ColSet(t)) = t}

\* rows (as labels) of u whose null cells are all in column c
NullOnlyIn(u, c) ==
    {r - 1 : r \in {k \in 1..Len(u.rows) :
        /\ isna(u.rows[k][c])
        /\ \A j \in 1..Len(u.cols) : isna(u.rows[k][u.cols[j]]) => u.cols[j] = c}}

DeptExpected == {"Department_ID", "Department_Name", "DOE"}

PerfExpected == {"Student_ID", "Paper_ID", "Marks", "Effort_Hours"}

AbsentDept ==
    Past("dept_doe") =>
        \A c \in DeptExpected \ ColSet(dept) :
            /\ \A k \in 1..Len(dept_ex) : dept_ex[k].column # c
            /\ \A u \in WithColumn(DeptSamples, dept, c) :
                 dept_ex = WithoutColumn(DeptLedger(u), c)

AbsentStud ==
    (Past("stud_fk") /\ ~HasCol(stud, "Department_Admission")) => stud_ex = <<>>

NoRuleAborts == pc = "aborted" => (Past("perf_report") /\ ~SummaryReadable)

\* C11 as stated: the other Performance rules, the row-level Missing rule
\* included, produce the exceptions they produce with the column present
C11_AbsentColumnChangesNothingElse ==
    /\ AbsentDept
    /\ AbsentStud
    /\ NoRuleAborts
    /\ Past("perf_dup_pair") =>
        \A c \in PerfExpected \ ColSet(perf) :
            /\ \A k \in 1..Len(perf_ex) : perf_ex[k].column \notin {c, RuleColumn(c)}
            /\ \A u \in WithColumn(PerfSamples, perf, c) :
                 /\ perf_ex = WithoutColumn(PerfLedger(u), c)
                 /\ discard_idx = PolicyDiscard(WithoutColumn(PerfLedger(u), c))

\* C11 amended: as stated, except that the null rules see one column fewer:
\* a Performance row whose null cells are all in the absent column gets no
\* row-level Missing exception and no discard entry from it.
WithoutNullsOf(ex, u, c) ==
    SelectSeq(WithoutColumn(ex, c), LAMBDA e :
        ~(e.column = "(row)" /\ e.row_index \in NullOnlyIn(u, c)))

C11_AbsentColumnSkipsItsRules ==
    /\ AbsentDept
    /\ AbsentStud
    /\ NoRuleAborts
    /\ Past("perf_dup_pair") =>
        \A c \in PerfExpected \ ColSet(perf) :
            /\ \A k \in 1..Len(perf_ex) : perf_ex[k].column \notin {c, RuleColumn(c)}
            /\ \A u \in WithColumn(PerfSamples, perf, c) :
                 /\ perf_ex = WithoutNullsOf(PerfLedger(u), u, c)
                 /\ discard_idx = PolicyDiscard(WithoutNullsOf(PerfLedger(u), u, c))

\* Marks is absent, its rule would have fired, and the other rules did fire
C11_Witness ==
    /\ Past("perf_dup_pair")
    /\ ~HasCol(perf, "Marks") /\ HasCol(perf, "Effort_Hours")
    /\ perf_ex # <<>>
    /\ discard_idx # {}
    /\ \E u \in WithColumn(PerfSamples, perf, "Marks") :
         \E k \in 1..Len(PerfLedger(u)) : PerfLedger(u)[k].column = "Marks"

\* ------------------------------------------------------------------------
\* C12  A second call on the same tables ends every rule block with the
\* exception lists (record for record, in the same order) and the discard
\* set of the first call: nothing the first call left behind reaches it.
\* ------------------------------------------------------------------------
C12_SecondRunSameLedgers ==
    run > 1 =>
        /\ Past("load") => <<dept, stud, perf>> =
                              <<store.Department_Information,
                                store.Student_Counceling_Information,
                                store.Student_Performance_Data>>
        /\ Past("dept_doe") => dept_ex = prev.dept_ex
        /\ Past("stud_fk") => stud_ex = prev.stud_ex
        /\ Past("perf_dup_pair") => (perf_ex = prev.perf_ex /\ discard_idx = prev.discard_idx)

\* a second call that has run all the rules, with exceptions in every ledger
C12_Witness ==
    /\ run = 2
    /\ Past("perf_dup_pair")
    /\ dept_ex # <<>> /\ stud_ex # <<>> /\ perf_ex # <<>>
    /\ discard_idx # {}
    /\ files["Student_Performance_Data_exceptions.csv"].written

\* ------------------------------------------------------------------------
\* C13  Counseling FK rule: a row gets an FK Violation iff its trimmed value
\* is not empty, the set of non-null Department_ID keys is not empty and the
\* value is not in it, and then exactly one; none at all when the key set is
\* empty or Department has no Department_ID; the row stays in the dataset.
\* ------------------------------------------------------------------------
\* the non-null Department_ID keys, as text
KeyTexts ==
    IF HasCol(dept, "Department_ID")
    THEN {str(dept.rows[k]["Department_ID"]) :
            k \in {j \in 1..Len(dept.rows) : ~isna(dept.rows[j]["Department_ID"])}}
    ELSE {}

\* the row has a value, and the value is no key
IsFKViolation(v) == ~Blank(v) /\ KeyTexts # {} /\ strip(str(v)) \notin KeyTexts

C13_FKViolationIffUnknownKey ==
    Past("stud_fk") =>
        /\ StudApplies(stud) =>
             \A r \in 1..Len(stud.rows) :
                 Count(stud_ex, r - 1, "Department_Admission", "FK Violation")
                    = IF IsFKViolation(stud.rows[r]["Department_Admission"]) THEN 1 ELSE 0
        /\ KeyTexts = {} =>
             \A k \in 1..Len(stud_ex) : stud_ex[k].issue_type # "FK Violation"
        /\ stud = store.Student_Counceling_Information

\* ------------------------------------------------------------------------
\* C14  Department duplicates: every row whose Department_ID occurs in at
\* least two rows gets exactly one Duplicate Key exception, a row with a
\* unique Department_ID none; likewise Department_Name and Duplicate Value.
\* Two rows sharing an ID, with distinct names and valid DOE, yield exactly
\* two Duplicate Key exceptions and nothing else.
\* ------------------------------------------------------------------------
Occurrences(t, c, r) == Cardinality({q \in 1..Len(t.rows) : t.rows[q][c] = t.rows[r][c]})

DuplicatesReported(c, it) ==
    HasCol(dept, c) =>
        \A r \in 1..Len(dept.rows) :
            Count(dept_ex, r - 1, c, it) = IF Occurrences(dept, c, r) >= 2 THEN 1 ELSE 0

\* Scenario A: two rows, one ID, two names, valid years, no null
SharedIdOnly ==
    /\ dept.cols = DeptCols
    /\ Len(dept.rows) = 2
    /\ \A r \in 1..2 : \A c \in DeptExpected : ~isna(dept.rows[r][c])
    /\ dept.rows[1]["Department_ID"] = dept.rows[2]["Department_ID"]
    /\ dept.rows[1]["Department_Name"] # dept.rows[2]["Department_Name"]
    /\ \A r \in 1..2 : int(dept.rows[r]["DOE"]).ok /\ int(dept.rows[r]["DOE"]).n >= 1900

C14_DuplicateRowsAllReported ==
    /\ Past("dept_dup_key") => DuplicatesReported("Department_ID", "Duplicate Key")
    /\ Past("dept_dup_name") => DuplicatesReported("Department_Name", "Duplicate Value")
    /\ (Past("dept_doe") /\ SharedIdOnly) =>
          /\ Len(dept_ex) = 2
          /\ \A k \in 1..2 : /\ dept_ex[k].issue_type = "Duplicate Key"
                             /\ dept_ex[k].column = "Department_ID"
                             /\ dept_ex[k].row_index = k - 1

\* Scenario A has run
C14_Witness ==
    /\ Past("dept_doe")
    /\ SharedIdOnly
    /\ Count(dept_ex, 0, "Department_ID", "Duplicate Key") = 1

\* ------------------------------------------------------------------------
\* C15  Department DOE rule, row by row.
\* ------------------------------------------------------------------------
\* number of records about column DOE of row label i
DOERecords(i) ==
    Cardinality({k \in 1..Len(dept_ex) :
        dept_ex[k].row_index = i /\ dept_ex[k].column = "DOE"})

DOERuleRan == Past("dept_doe") /\ ~empty(dept) /\ HasCol(dept, "DOE")

\* C15 as stated: Invalid Type exactly when int() fails, a null included,
\* else Out-of-Range exactly when the year is below 1900, else nothing; never
\* more than one exception on DOE for a row
C15_DOENullIsInvalidType ==
    DOERuleRan =>
        \A r \in 1..Len(dept.rows) :
            LET v == dept.rows[r]["DOE"]
                bad == isna(v) \/ ~int(v).ok
            IN  /\ Count(dept_ex, r - 1, "DOE", "Invalid Type") = IF bad THEN 1 ELSE 0
                /\ Count(dept_ex, r - 1, "DOE", "Out-of-Range")
                      = IF ~bad /\ int(v).n < 1900 THEN 1 ELSE 0
                /\ DOERecords(r - 1) <= 1

\* C15 amended: Invalid Type exactly when the value is not null and int()
\* fails, Out-of-Range exactly when the value is null or the year is below
\* 1900, else nothing; never more than one exception of the DOE rule for a
\* row (a null DOE carries the Missing exception of the null rule besides).
C15_DOENullIsOutOfRange ==
    DOERuleRan =>
        \A r \in 1..Len(dept.rows) :
            LET v == dept.rows[r]["DOE"]
                bad == ~isna(v) /\ ~int(v).ok
                low == isna(v) \/ (int(v).ok /\ int(v).n < 1900)
            IN  /\ Count(dept_ex, r - 1, "DOE", "Invalid Type") = IF bad THEN 1 ELSE 0
                /\ Count(dept_ex, r - 1, "DOE", "Out-of-Range") = IF low THEN 1 ELSE 0
                /\ DOERecords(r - 1) = (IF bad \/ low THEN 1 ELSE 0)
                                        + (IF isna(v) THEN 1 ELSE 0)
                /\ isna(v) => Count(dept_ex, r - 1, "DOE", "Missing") = 1

\* a table with the year 1900, which passes, and a year that does not
C15_Witness ==
    /\ DOERuleRan
    /\ \E r \in 1..Len(dept.rows) :
         dept.rows[r]["DOE"] = IntC(1900) /\ DOERecords(r - 1) = 0
    /\ \E r \in 1..Len(dept.rows) :
         Count(dept_ex, r - 1, "DOE", "Out-of-Range") = 1

\* ------------------------------------------------------------------------
\* C16  Performance Marks rule: exactly one Invalid Type when the value does
\* not convert to a real number, exactly one Out-of-Range when it converts
\* but lies outside [0, 100], nothing when it lies within (0 and 100
\* included); in the first two cases the row is in the discard set and is
\* absent from the cleaned output.
\* ------------------------------------------------------------------------
MarksRuleRan == Past("perf_marks") /\ ~empty(perf) /\ HasCol(perf, "Marks")

\* the value converts and the number is one of [0, 100] (in tenths)
Within0To100(v) == float(v).ok /\ float(v).kind = "num" /\ float(v).n \in 0..1000

C16_MarksClassified ==
    MarksRuleRan =>
        \A r \in 1..Len(perf.rows) :
            LET v == perf.rows[r]["Marks"]
                invalid == ~float(v).ok
                outside == float(v).ok /\ ~Within0To100(v)
            IN  /\ Count(perf_ex, r - 1, "Marks", "Invalid Type") = IF invalid THEN 1 ELSE 0
                /\ Count(perf_ex, r - 1, "Marks", "Out-of-Range") = IF outside THEN 1 ELSE 0
                /\ (invalid \/ outside) =>
                      /\ (r - 1) \in discard_idx
                      /\ Past("clean") =>
                            \A j \in 1..Len(perf_clean.rows) : perf_clean.rows[j] # perf.rows[r]

\* a row with Marks 100 passes the rule while another row is rejected and
\* left out of the cleaned output
C16_Witness ==
    /\ MarksRuleRan /\ Past("clean")
    /\ \E r \in 1..Len(perf.rows) :
         /\ perf.rows[r]["Marks"] = IntC(100)
         /\ Count(perf_ex, r - 1, "Marks", "Out-of-Range") = 0
         /\ (r - 1) \notin discard_idx
    /\ \E r \in 1..Len(perf.rows) :
         /\ Count(perf_ex, r - 1, "Marks", "Out-of-Range") = 1
         /\ (r - 1) \in discard_idx

\* ------------------------------------------------------------------------
\* C17  Performance Effort_Hours rule: exactly one Invalid Type when the
\* value does not convert to an integer, exactly one Out-of-Range when it
\* converts but is negative or is a fractional value with a non-zero
\* remainder, nothing for a non-negative whole number (0 included); in the
\* first two cases the row is in the discard set.
\* ------------------------------------------------------------------------
EffortRuleRan == Past("perf_effort") /\ ~empty(perf) /\ HasCol(perf, "Effort_Hours")

\* a float cell whose tenths digit is not zero
Fractional(v) == v.t = "float" /\ v.n % 10 # 0

C17_EffortClassified ==
    EffortRuleRan =>
        \A r \in 1..Len(perf.rows) :
            LET v == perf.rows[r]["Effort_Hours"]
                invalid == ~int(v).ok
                outside == int(v).ok /\ (int(v).n < 0 \/ Fractional(v))
            IN  /\ Count(perf_ex, r - 1, "Effort_Hours", "Invalid Type")
                      = IF invalid THEN 1 ELSE 0
                /\ Count(perf_ex, r - 1, "Effort_Hours", "Out-of-Range")
                      = IF outside THEN 1 ELSE 0
                /\ (invalid \/ outside) => (r - 1) \in discard_idx

\* Effort_Hours 0.0 passes the rule while a fractional value is rejected
C17_Witness ==
    /\ EffortRuleRan
    /\ \E r \in 1..Len(perf.rows) :
         /\ perf.rows[r]["Effort_Hours"] = FloatC(0)
         /\ Count(perf_ex, r - 1, "Effort_Hours", "Out-of-Range") = 0
    /\ \E r \in 1..Len(perf.rows) :
         /\ Fractional(perf.rows[r]["Effort_Hours"])
         /\ int(perf.rows[r]["Effort_Hours"]).n >= 0
         /\ Count(perf_ex, r - 1, "Effort_Hours", "Out-of-Range") = 1
         /\ (r - 1) \in discard_idx

\* ------------------------------------------------------------------------
\* C18  Rule order in the ledger: in each entity's ledger every exception of
\* an earlier rule of the catalogue precedes every exception of a later
\* rule, whatever the row index, and within one rule the exceptions appear
\* in ascending row index.
\* ------------------------------------------------------------------------
\* position in the catalogue of the rule that wrote record e
DeptRuleNo(e) ==
    CASE e.issue_type = "Missing" -> 1
      [] e.issue_type = "Duplicate Key" -> 2
      [] e.issue_type = "Duplicate Value" -> 3
      [] OTHER -> 4

StudRuleNo(e) == IF e.issue_type = "Missing" THEN 1 ELSE 2

PerfRuleNo(e) ==
    CASE e.issue_type = "Missing" -> 1
      [] e.column = "Marks" -> 2
      [] e.column = "Effort_Hours" -> 3
      [] OTHER -> 4

\* records k < l of ledger ex are in catalogue order, then in row order;
\* only the Department null rule writes several records for one row
InOrder(ex, no, k, l) ==
    \/ no[k] < no[l]
    \/ /\ no[k] = no[l]
       /\ \/ ex[k].row_index < ex[l].row_index
          \/ /\ ex[k].row_index = ex[l].row_index
             /\ ex[k].issue_type = "Missing"
             /\ ex[k].column # ex[l].column

Ordered(ex, no) ==
    \A k \in 1..Len(ex) : \A l \in (k + 1)..Len(ex) : InOrder(ex, no, k, l)

C18_LedgersInCatalogueOrder ==
    /\ Ordered(dept_ex, [k \in 1..Len(dept_ex) |-> DeptRuleNo(dept_ex[k])])
    /\ Ordered(stud_ex, [k \in 1..Len(stud_ex) |-> StudRuleNo(stud_ex[k])])
    /\ Ordered(perf_ex, [k \in 1..Len(perf_ex) |-> PerfRuleNo(perf_ex[k])])

\* after all the rules have run, the Missing exception of a later row
\* precedes the exception of a later rule about an earlier row
C18_Witness ==
    /\ Past("perf_dup_pair")
    /\ \E k \in 1..Len(perf_ex) : \E l \in (k + 1)..Len(perf_ex) :
         /\ perf_ex[k].row_index > perf_ex[l].row_index
         /\ PerfRuleNo(perf_ex[k]) = 1 /\ PerfRuleNo(perf_ex[l]) > 1

\* ------------------------------------------------------------------------
\* C19  No short-circuit, no deduplication: a row that violates k rules has
\* exactly k exception records, whatever the other rules found, and the
\* ledger of an entity has as many records as its rules flag rows.  (The
\* Department null rule names the column, so it counts once per null
\* column of the row.)
\* ------------------------------------------------------------------------
B2N(b) == IF b THEN 1 ELSE 0

\* number of records of ledger ex about row label i
Records(ex, i) == Cardinality({k \in 1..Len(ex) : ex[k].row_index = i})

\* every record is about a row of t, and each row has as many as viol says
Tally(ex, t, viol(_)) ==
    /\ \A k \in 1..Len(ex) : ex[k].row_index \in 0..(Len(t.rows) - 1)
    /\ \A r \in 1..Len(t.rows) : Records(ex, r - 1) = viol(r)

NullCells(t, r) == Cardinality({j \in 1..Len(t.cols) : isna(t.rows[r][t.cols[j]])})

DeptViolations(r) ==
    NullCells(dept, r)
    + B2N(HasCol(dept, "Department_ID") /\ Occurrences(dept, "Department_ID", r) >= 2)
    + B2N(HasCol(dept, "Department_Name") /\ Occurrences(dept, "Department_Name", r) >= 2)
    + B2N(HasCol(dept, "DOE") /\
            LET v == dept.rows[r]["DOE"] IN isna(v) \/ ~int(v).ok \/ int(v).n < 1900)

StudViolations(r) ==
    IF ~HasCol(stud, "Department_Admission") THEN 0
    ELSE B2N(Blank(stud.rows[r]["Department_Admission"]))
         + B2N(IsFKViolation(stud.rows[r]["Department_Admission"]))

PairOccurrences(t, r) ==
    Cardinality({q \in 1..Len(t.rows) :
        /\ t.rows[q]["Student_ID"] = t.rows[r]["Student_ID"]
        /\ t.rows[q]["Paper_ID"] = t.rows[r]["Paper_ID"]})

PerfViolations(r) ==
    B2N(NullCells(perf, r) > 0)
    + B2N(HasCol(perf, "Marks") /\ ~Within0To100(perf.rows[r]["Marks"]))
    + B2N(HasCol(perf, "Effort_Hours") /\
            LET v == perf.rows[r]["Effort_Hours"]
            IN  ~int(v).ok \/ int(v).n < 0 \/ Fractional(v))
    + B2N(HasCol(perf, "Student_ID") /\ HasCol(perf, "Paper_ID")
            /\ PairOccurrences(perf, r) >= 2)

DeptTally == Past("dept_doe") => Tally(dept_ex, dept, DeptViolations)

StudTally == Past("stud_fk") => Tally(stud_ex, stud, StudViolations)

PerfTally == Past("perf_dup_pair") => Tally(perf_ex, perf, PerfViolations)

C19_OneRecordPerViolatedRule == DeptTally /\ StudTally /\ PerfTally

====
